---------------------------- MODULE Spec2Model ----------------------------
(***************************************************************************)
(* A model of the non-relation-file utilities of postgres_ffi              *)
(* (libs/postgres_ffi/src/nonrelfile_utils.rs): the CLOG status codec, the *)
(* CSN codec, the wraparound ordering of transaction ids, the SLRU segment *)
(* retention predicate and the MultiXact member addressing; and of the     *)
(* start and stop commands of the zenith command line                      *)
(* (zenith/src/main.rs).                                                   *)
(*                                                                         *)
(* TLC's integers are 32-bit signed, so a u32 of the program is the pair   *)
(* <<hi, lo>> of its two 16-bit halves and a u64 the tuple of its four     *)
(* 16-bit words, most significant first.  Every arithmetic operator of the *)
(* program is modelled on these pairs with the width it has in the code.   *)
(* A build with overflow checks (cargo's dev and test profiles) aborts on  *)
(* an overflowing +, - or *, a build without them (release) wraps: the     *)
(* variable overflow_checks is the build the program was compiled as.      *)
(***************************************************************************)
EXTENDS Integers, Sequences, FiniteSets, TLC

VARIABLES
    overflow_checks,  \* the build: TRUE = arithmetic overflow panics
    unit,             \* which component of the library this run exercises
    clog_page,        \* the CLOG page buffer (page: &mut BytesMut)
    clog_before,      \* the buffer as it was when the last call started
    clog_xid,         \* xid of the last transaction_id_set_status call
    clog_status,      \* status of the last transaction_id_set_status call
    clog_outcome,     \* "none" | "ok" | "panic" for the last call
    clog_calls,       \* number of calls made on the buffer
    csn_page,         \* the CSN-log page buffer (page: &mut BytesMut)
    csn_before,       \* the buffer as it was when the last call started
    csn_xid,          \* xid of the last transaction_id_set_csn call
    csn_value,        \* csn of the last transaction_id_set_csn call
    csn_outcome,      \* "none" | "ok" | "panic" for the last call
    csn_calls,        \* number of calls made on the buffer
    ord_ids,          \* the identifiers <<a, b, c>> handed to transaction_id_precedes
    ord_res,          \* its results, by pair of arguments ("ab" is precedes(a, b))
    ord_done,         \* the comparisons have been made
    slru_segpage,     \* segpage handed to slru_may_delete_segment
    slru_cutoff,      \* cutoff_page of the last call
    slru_result,      \* "none" | "true" | "false" | "assert" | "overflow"
    slru_prev_cutoff, \* cutoff_page of the call before the last
    slru_prev_result, \* its result
    slru_calls,       \* number of calls made for the segment
    mx_xid,           \* member id handed to the mx_offset_to_* functions
    mx_region,        \* region handed to mx_offset_to_member_page / _segment
    mx_out,           \* what the five functions returned
    mx_done,          \* the functions have been called
    mx_xid2,          \* a second member id handed to mx_offset_to_member_page
    mx_region2,       \* and its region
    mx_page2,         \* the page returned for them, or a panic
    pg_page1,         \* page1 handed to clogpage_precedes / csnlogpage_precedes
    pg_page2,         \* page2 handed to it
    pg_out,           \* results for (page1, page2), (page2, page1), (page1, page1):
                      \* "true" | "false" | "overflow", and whether a u32 wrapped
    pg_done,          \* the comparisons have been made
    race_page,        \* the byte page[byteno] two concurrent writers share
    race_xids,        \* the writers' identifiers
    race_status,      \* the writers' statuses
    race_pc,          \* each writer: "read" | "write" | "done"
    race_read,        \* the byte each writer read
    race_locked,      \* the buffer has a single-writer discipline
    hist_page,        \* a CLOG page buffer written by a sequence of calls
    hist_initial,     \* that buffer before the first call
    hist_log,         \* <<xid, status>> of the calls made on it, in order
    cli_cmd,          \* the zenith subcommand: "none" | "start" | "stop"
    cli_immediate,    \* stop-mode is "immediate"
    cli_safekeepers,  \* env.safekeepers, in configuration order
    cli_nodes,        \* the compute nodes ComputeControlPlane::load finds
    cli_pc,           \* the handler's position
    cli_todo,         \* compute nodes the loop over cplane.nodes has not visited
    cli_sk,           \* index of the safekeeper the loop visits next
    cli_log,          \* the start and stop calls made, in order, with outcomes
    cli_stderr,       \* the lines written by eprintln!, in order
    cli_result        \* "none" | "running" | "Ok" | "Err" | "exit1"

clog_vars == <<clog_page, clog_before, clog_xid, clog_status, clog_outcome,
               clog_calls>>

csn_vars == <<csn_page, csn_before, csn_xid, csn_value, csn_outcome, csn_calls>>

ord_vars == <<ord_ids, ord_res, ord_done>>

slru_vars == <<slru_segpage, slru_cutoff, slru_result, slru_prev_cutoff,
               slru_prev_result, slru_calls>>

mx_vars == <<mx_xid, mx_region, mx_out, mx_done, mx_xid2, mx_region2, mx_page2>>

pg_vars == <<pg_page1, pg_page2, pg_out, pg_done>>

race_vars == <<race_page, race_xids, race_status, race_pc, race_read,
               race_locked>>

hist_vars == <<hist_page, hist_initial, hist_log>>

cli_vars == <<cli_cmd, cli_immediate, cli_safekeepers, cli_nodes, cli_pc,
              cli_todo, cli_sk, cli_log, cli_stderr, cli_result>>

vars == <<overflow_checks, unit, clog_vars, csn_vars, ord_vars, slru_vars,
          mx_vars, pg_vars, race_vars, hist_vars, cli_vars>>

---------------------------------------------------------------------------
(* Bounds of the model *)

\* Identifiers are sampled at the anchors below and up to MaxDelta above them.
MaxDelta == 1
\* Calls made on one page buffer.
MaxCalls == 2
\* Safekeepers of a configuration.
MaxSafekeepers == 2
\* Compute nodes of a control plane.
MaxNodes == 2

---------------------------------------------------------------------------
(* Fixed-width integers *)

W16 == 2 ^ 16
W15 == 2 ^ 15

\* The u32 with halves hi and lo.
U32(hi, lo) == <<hi, lo>>

\* The u32 of a natural number below 2^31.
ToU32(n) == <<n \div W16, n % W16>>

U32_MAX == <<W16 - 1, W16 - 1>>

\* a < b on u32.
u32_lt(a, b) == a[1] < b[1] \/ (a[1] = b[1] /\ a[2] < b[2])

\* a + b, wrapping (u32::wrapping_add; + in a build without overflow checks).
wrapping_add(a, b) ==
    LET lo == a[2] + b[2]
        hi == a[1] + b[1] + lo \div W16
    IN  <<hi % W16, lo % W16>>

\* a + b exceeds u32::MAX.
add_overflows(a, b) == a[1] + b[1] + (a[2] + b[2]) \div W16 >= W16

\* a - b, wrapping (u32::wrapping_sub).
wrapping_sub(a, b) ==
    LET lo == a[2] - b[2]
        borrow == IF lo < 0 THEN 1 ELSE 0
        hi == a[1] - b[1] - borrow
    IN  <<(hi + W16) % W16, (lo + W16) % W16>>

\* a - b is below zero.
sub_overflows(a, b) == u32_lt(a, b)

\* a * k for a multiplier 0 < k <= 2^15, wrapping.
wrapping_mul(a, k) ==
    LET lo == a[2] * k
        hi == a[1] * k + lo \div W16
    IN  <<hi % W16, lo % W16>>

\* a * k exceeds u32::MAX.
mul_overflows(a, k) == a[1] * k + (a[2] * k) \div W16 >= W16

\* a / k and a % k for a divisor 0 < k <= 2^15 (long division on the halves).
u32_div(a, k) ==
    LET t == (a[1] % k) * W16 + a[2]
    IN  <<a[1] \div k, t \div k>>

u32_rem(a, k) == ((a[1] % k) * W16 + a[2]) % k

\* `as u16` and `as u8`: truncation to the low bits.
as_u16(a) == a[2]

as_u8(n) == n % 256

\* Bitwise operators on u8.
Bit(x, i) == (x \div (2 ^ i)) % 2

RECURSIVE FromBits(_, _)
FromBits(f, i) == IF i > 7 THEN 0 ELSE f[i] * (2 ^ i) + FromBits(f, i + 1)

and_u8(x, y) == FromBits([i \in 0 .. 7 |-> Bit(x, i) * Bit(y, i)], 0)

or_u8(x, y) ==
    FromBits([i \in 0 .. 7 |-> IF Bit(x, i) + Bit(y, i) > 0 THEN 1 ELSE 0], 0)

not_u8(x) == 255 - x

\* x << n on u8 with n < 8: the bits shifted past bit 7 are dropped.
shl_u8(x, n) == (x * (2 ^ n)) % 256

shr_u8(x, n) == x \div (2 ^ n)

---------------------------------------------------------------------------
(* Constants (pg_constants.rs) *)

BLCKSZ == 8192

CLOG_XACTS_PER_BYTE == 4
CLOG_XACTS_PER_PAGE == BLCKSZ * CLOG_XACTS_PER_BYTE
CLOG_BITS_PER_XACT == 2
CLOG_XACT_BITMASK == (2 ^ CLOG_BITS_PER_XACT) - 1

SLRU_PAGES_PER_SEGMENT == 32

FIRST_NORMAL_TRANSACTION_ID == 3

MXACT_MEMBER_BITS_PER_XACT == 8
MXACT_MEMBER_FLAGS_PER_BYTE == 1
MULTIXACT_FLAGBYTES_PER_GROUP == 4
MULTIXACT_MEMBERS_PER_MEMBERGROUP ==
    MULTIXACT_FLAGBYTES_PER_GROUP * MXACT_MEMBER_FLAGS_PER_BYTE
MULTIXACT_MEMBERGROUP_SIZE ==
    4 * MULTIXACT_MEMBERS_PER_MEMBERGROUP + MULTIXACT_FLAGBYTES_PER_GROUP
MULTIXACT_MEMBERGROUPS_PER_PAGE == BLCKSZ \div MULTIXACT_MEMBERGROUP_SIZE
MULTIXACT_MEMBERS_PER_PAGE ==
    MULTIXACT_MEMBERGROUPS_PER_PAGE * MULTIXACT_MEMBERS_PER_MEMBERGROUP

\* Number of regions; the test's member pages (4829568 = (123456789 / 1636) * 64)
\* fix its value.
MAX_REGIONS == 64

\* Size of one CSN entry and entries per CSN-log page.
CSN_SIZE == 8
CSN_LOG_XACTS_PER_PAGE == BLCKSZ \div CSN_SIZE

---------------------------------------------------------------------------
(* Sampled inputs *)

\* The identifiers base .. base + MaxDelta.
Near(base) == {wrapping_add(base, ToU32(d)) : d \in 0 .. MaxDelta}

\* A page buffer of len bytes whose byte i is seed + i * stride (mod 256).
PageOf(len, seed, stride) == [i \in 0 .. len - 1 |-> (seed + i * stride) % 256]

\* The variables of a component that a run does not exercise.
ClogIdle ==
    /\ clog_page = <<>> /\ clog_before = <<>> /\ clog_xid = <<0, 0>>
    /\ clog_status = 0 /\ clog_outcome = "none" /\ clog_calls = 0

CsnIdle ==
    /\ csn_page = <<>> /\ csn_before = <<>> /\ csn_xid = <<0, 0>>
    /\ csn_value = <<0, 0, 0, 0>> /\ csn_outcome = "none" /\ csn_calls = 0

OrdPairs == {"aa", "ab", "ba", "bc", "cb", "ac", "ca"}

OrdIdle ==
    /\ ord_ids = <<>> /\ ord_res = [p \in OrdPairs |-> FALSE] /\ ord_done = FALSE

SlruIdle ==
    /\ slru_segpage = <<0, 0>> /\ slru_cutoff = <<0, 0>> /\ slru_result = "none"
    /\ slru_prev_cutoff = <<0, 0>> /\ slru_prev_result = "none" /\ slru_calls = 0

\* Nothing returned yet.
MxNone ==
    [flags_offset |-> 0, flags_bitshift |-> 0, member_offset |-> 0,
     member_page |-> <<0, 0>>, member_segment |-> <<0, 0>>, page_panic |-> FALSE,
     overflowed |-> FALSE]

MxIdle ==
    /\ mx_xid = <<0, 0>> /\ mx_region = <<0, 0>> /\ mx_out = MxNone
    /\ mx_done = FALSE
    /\ mx_xid2 = <<0, 0>> /\ mx_region2 = <<0, 0>>
    /\ mx_page2 = [page |-> <<0, 0>>, panic |-> FALSE]

PgNone == [fwd |-> "none", bwd |-> "none", self |-> "none", overflowed |-> FALSE]

PgIdle ==
    /\ pg_page1 = <<0, 0>> /\ pg_page2 = <<0, 0>> /\ pg_out = PgNone
    /\ pg_done = FALSE

RaceIdle ==
    /\ race_page = 0 /\ race_xids = <<>> /\ race_status = <<>>
    /\ race_pc = <<>> /\ race_read = <<>> /\ race_locked = FALSE

HistIdle == hist_page = <<>> /\ hist_initial = <<>> /\ hist_log = <<>>

CliIdle ==
    /\ cli_cmd = "none" /\ cli_immediate = FALSE /\ cli_safekeepers = <<>>
    /\ cli_nodes = {} /\ cli_pc = "none" /\ cli_todo = {} /\ cli_sk = 0
    /\ cli_log = <<>> /\ cli_stderr = <<>> /\ cli_result = "none"

---------------------------------------------------------------------------
(* CLOG codec *)

clog_byteno(xid) == u32_rem(xid, CLOG_XACTS_PER_PAGE) \div CLOG_XACTS_PER_BYTE

clog_bshift(xid) == as_u8(u32_rem(xid, CLOG_XACTS_PER_BYTE) * CLOG_BITS_PER_XACT)

\* page[byteno] is out of bounds: the indexing panics before anything is written.
transaction_id_set_status_panics(xid, page) == clog_byteno(xid) \notin DOMAIN page

\* Mutant: the old status is not cleared before the new one is or-ed in.
transaction_id_set_status_no_clear(xid, status, page) ==
    LET byteno == clog_byteno(xid)
        bshift == clog_bshift(xid)
    IN  [page EXCEPT ![byteno] = or_u8(page[byteno], shl_u8(status, bshift))]

\* Mutant: the whole byte is cleared, not only the identifier's two bits.
transaction_id_set_status_whole_byte(xid, status, page) ==
    LET byteno == clog_byteno(xid)
        bshift == clog_bshift(xid)
    IN  [page EXCEPT ![byteno] = shl_u8(status, bshift)]

\* Mutant: a field that holds a status other than 0 keeps it.
transaction_id_set_status_once(xid, status, page) ==
    LET byteno == clog_byteno(xid)
        bshift == clog_bshift(xid)
    IN  IF (page[byteno] \div (2 ^ bshift)) % 4 # 0 THEN page
        ELSE [page EXCEPT ![byteno] = or_u8(page[byteno], shl_u8(status, bshift))]

\* The page after transaction_id_set_status(xid, status, page) returned.
transaction_id_set_status(xid, status, page) ==
    LET byteno == clog_byteno(xid)
        bshift == clog_bshift(xid)
    IN  [page EXCEPT ![byteno] =
            or_u8(and_u8(page[byteno], not_u8(shl_u8(CLOG_XACT_BITMASK, bshift))),
                  shl_u8(status, bshift))]

transaction_id_get_status(xid, page) ==
    LET byteno == clog_byteno(xid)
        bshift == clog_bshift(xid)
    IN  and_u8(shr_u8(page[byteno], bshift), CLOG_XACT_BITMASK)

\* Identifiers at both ends of a page, sharing a byte, sharing a bit field
\* across pages (32768 and 0), and the largest identifier.
ClogXids ==
    {ToU32(0), ToU32(1), ToU32(3), ToU32(CLOG_XACTS_PER_PAGE),
     ToU32(123456789), U32_MAX}

ClogStatuses == 0 .. CLOG_XACT_BITMASK

\* Buffers of BLCKSZ bytes with differing content, and a truncated buffer
\* that ends right before the byte of identifier 123456789 (byte 4933).
ClogPages ==
    {PageOf(BLCKSZ, 0, 0), PageOf(BLCKSZ, 228, 57), PageOf(4933, 27, 0)}

\* The codec's arithmetic cannot overflow (byteno < BLCKSZ, bshift <= 6), so
\* one build stands for both.
ClogInit ==
    /\ unit = "clog"
    /\ overflow_checks = FALSE
    /\ clog_page \in ClogPages
    /\ clog_before = clog_page
    /\ clog_xid = ToU32(0)
    /\ clog_status = 0
    /\ clog_outcome = "none"
    /\ clog_calls = 0
    /\ CsnIdle /\ OrdIdle /\ SlruIdle /\ MxIdle /\ PgIdle /\ RaceIdle
    /\ HistIdle /\ CliIdle

SetStatus(xid, status) ==
    /\ unit = "clog"
    /\ clog_outcome # "panic"
    /\ clog_calls < MaxCalls
    /\ clog_calls' = clog_calls + 1
    /\ clog_xid' = xid
    /\ clog_status' = status
    /\ clog_before' = clog_page
    /\ IF transaction_id_set_status_panics(xid, clog_page)
       THEN clog_outcome' = "panic" /\ clog_page' = clog_page
       ELSE /\ clog_outcome' = "ok"
            /\ clog_page' = transaction_id_set_status(xid, status, clog_page)
    /\ UNCHANGED <<overflow_checks, unit, csn_vars, ord_vars, slru_vars, mx_vars,
                   pg_vars, race_vars,
                   hist_vars, cli_vars>>

ClogNext == \E xid \in ClogXids, status \in ClogStatuses : SetStatus(xid, status)

SpecClog == ClogInit /\ [][ClogNext]_vars


---------------------------------------------------------------------------
(* Sequences of CLOG writes *)

\* Identifiers of the first two entries of a page, of the first entry through
\* the next page (32768), and of the last entry.
HistXids == {ToU32(0), ToU32(1), ToU32(CLOG_XACTS_PER_PAGE), U32_MAX}

\* Pages of BLCKSZ bytes: one whose bytes differ, one with every status 3, 2,
\* 1, 0 in each byte.
HistPages == {PageOf(BLCKSZ, 228, 57), PageOf(BLCKSZ, 27, 0)}

HistInit ==
    /\ unit = "cloghist"
    /\ overflow_checks = FALSE
    /\ hist_page \in HistPages
    /\ hist_initial = hist_page
    /\ hist_log = <<>>
    /\ ClogIdle /\ CsnIdle /\ OrdIdle /\ SlruIdle /\ MxIdle /\ PgIdle /\ RaceIdle
    /\ CliIdle

\* One more transaction_id_set_status call on the buffer, after the previous
\* one returned.
SetStatusNext(xid, status) ==
    /\ unit = "cloghist"
    /\ Len(hist_log) < MaxCalls
    /\ ~transaction_id_set_status_panics(xid, hist_page)
    /\ hist_page' = transaction_id_set_status(xid, status, hist_page)
    /\ hist_log' = Append(hist_log, <<xid, status>>)
    /\ UNCHANGED <<overflow_checks, unit, hist_initial, clog_vars, csn_vars,
                   ord_vars, slru_vars, mx_vars, pg_vars, race_vars, cli_vars>>

HistNext == \E xid \in HistXids, status \in ClogStatuses : SetStatusNext(xid, status)

SpecHist == HistInit /\ [][HistNext]_vars

---------------------------------------------------------------------------
(* Two transaction_id_set_status calls on one byte of a shared buffer *)

\* Mutant: the byte written holds the new status alone.
clog_merge_whole_byte(byte, xid, status) == shl_u8(status, clog_bshift(xid))

\* The value assigned to page[byteno]: the byte read, with the identifier's two
\* bits replaced by status.
clog_merge(byte, xid, status) ==
    or_u8(and_u8(byte, not_u8(shl_u8(CLOG_XACT_BITMASK, clog_bshift(xid)))),
          shl_u8(status, clog_bshift(xid)))

\* Identifiers whose fields lie in byte 0 of a page, one of them (32770) on
\* the next page of the log.
RaceXids == {ToU32(0), ToU32(1), ToU32(3), ToU32(CLOG_XACTS_PER_PAGE + 2)}

\* Content of the shared byte before the calls.
RaceBytes == {0, 228}

Writers == {1, 2}

RaceInit ==
    /\ unit = "race"
    /\ overflow_checks = FALSE
    /\ race_page \in RaceBytes
    /\ race_xids \in {p \in RaceXids \X RaceXids :
                         /\ clog_byteno(p[1]) = clog_byteno(p[2])
                         /\ clog_bshift(p[1]) # clog_bshift(p[2])}
    /\ race_status \in ClogStatuses \X ClogStatuses
    /\ race_pc = <<"read", "read">>
    /\ race_read = <<0, 0>>
    /\ race_locked \in BOOLEAN
    /\ ClogIdle /\ CsnIdle /\ OrdIdle /\ SlruIdle /\ MxIdle /\ PgIdle /\ HistIdle
    /\ CliIdle

\* Writer w evaluates the right-hand side's page[byteno].  Under the
\* single-writer discipline a call starts only when no other call is between
\* its read and its write.
RaceRead(w) ==
    /\ unit = "race"
    /\ race_pc[w] = "read"
    /\ race_locked => \A o \in Writers : race_pc[o] # "write"
    /\ race_read' = [race_read EXCEPT ![w] = race_page]
    /\ race_pc' = [race_pc EXCEPT ![w] = "write"]
    /\ UNCHANGED <<overflow_checks, unit, race_page, race_xids, race_status,
                   race_locked, clog_vars, csn_vars, ord_vars, slru_vars,
                   mx_vars, pg_vars, hist_vars, cli_vars>>

\* Writer w assigns page[byteno].
RaceWrite(w) ==
    /\ unit = "race"
    /\ race_pc[w] = "write"
    /\ race_page' = clog_merge(race_read[w], race_xids[w], race_status[w])
    /\ race_pc' = [race_pc EXCEPT ![w] = "done"]
    /\ UNCHANGED <<overflow_checks, unit, race_read, race_xids, race_status,
                   race_locked, clog_vars, csn_vars, ord_vars, slru_vars,
                   mx_vars, pg_vars, hist_vars, cli_vars>>

RaceNext == \E w \in Writers : RaceRead(w) \/ RaceWrite(w)

SpecRace == RaceInit /\ [][RaceNext]_vars

---------------------------------------------------------------------------
(* Claims about the CLOG codec *)

ClogFullPage == DOMAIN clog_page = 0 .. BLCKSZ - 1

\* C1: CLOG round trip.  On a page of BLCKSZ bytes with any prior content,
\* transaction_id_get_status(xid, page) right after
\* transaction_id_set_status(xid, s, page), s in 0..3, returns exactly s.
C1_ClogRoundTrip ==
    (clog_outcome = "ok" /\ ClogFullPage)
        => transaction_id_get_status(clog_xid, clog_page) = clog_status

\* A call that changed the status stored for the largest identifier, and one
\* that changed it on a page with non-zero content.
C1_Witness ==
    /\ clog_outcome = "ok" /\ ClogFullPage
    /\ clog_xid = U32_MAX
    /\ transaction_id_get_status(clog_xid, clog_before) = 3
    /\ clog_status = 1
    /\ transaction_id_get_status(clog_xid, clog_page) = 1

\* C2: CLOG frame.  transaction_id_set_status(xid, s, page) changes no byte
\* other than page[(xid mod CLOG_XACTS_PER_PAGE) / 4], inside that byte no bit
\* outside the two bits at shift (xid mod 4) * 2, and so the status read for
\* every identifier that maps to another bit field is what it was.
C2_ClogFrame ==
    (clog_outcome = "ok" /\ ClogFullPage) =>
        LET b == u32_rem(clog_xid, CLOG_XACTS_PER_PAGE) \div 4
            sh == u32_rem(clog_xid, 4) * 2
        IN  /\ clog_page = [clog_before EXCEPT ![b] = clog_page[b]]
            /\ \A i \in 0 .. 7 :
                   i \notin {sh, sh + 1}
                       => Bit(clog_page[b], i) = Bit(clog_before[b], i)
            /\ \A other \in ClogXids :
                   <<clog_byteno(other), clog_bshift(other)>> # <<b, sh>>
                       => transaction_id_get_status(other, clog_page)
                              = transaction_id_get_status(other, clog_before)

\* A call that changed its own field while a neighbour in the same byte kept
\* a non-zero status.
C2_Witness ==
    /\ clog_outcome = "ok" /\ ClogFullPage
    /\ clog_page # clog_before
    /\ \E other \in ClogXids :
           /\ clog_byteno(other) = clog_byteno(clog_xid)
           /\ clog_bshift(other) # clog_bshift(clog_xid)
           /\ transaction_id_get_status(other, clog_before) # 0
           /\ transaction_id_get_status(other, clog_page)
                  = transaction_id_get_status(other, clog_before)

---------------------------------------------------------------------------
(* CSN codec *)

\* Mutant: the bytes are laid out most significant first (BigEndian).
le_byte_big_endian(csn, k) ==
    LET w == csn[1 + (k \div 2)]
    IN  IF k % 2 = 0 THEN w \div 256 ELSE w % 256

\* Byte k (0 = least significant) of a u64 given as four 16-bit words, most
\* significant first: what LittleEndian::write_u64 stores at offset k.
le_byte(csn, k) ==
    LET w == csn[4 - (k \div 2)]
    IN  IF k % 2 = 0 THEN w % 256 ELSE w \div 256

csn_bytebegin(xid) == u32_rem(xid, CSN_LOG_XACTS_PER_PAGE) * CSN_SIZE

csn_byteend(xid) == csn_bytebegin(xid) + CSN_SIZE

\* Mutant: only the first byte of the entry is checked against the buffer.
transaction_id_set_csn_panics_begin_only(xid, page) ==
    csn_bytebegin(xid) \notin DOMAIN page

\* page[bytebegin..byteend] is out of bounds: the slicing panics before
\* anything is written.
transaction_id_set_csn_panics(xid, page) ==
    csn_byteend(xid) - 1 \notin DOMAIN page

\* LittleEndian::write_u64 on the slice that starts at begin: bytes k .. 7 of
\* csn stored at page[begin + k] .. page[begin + 7].
RECURSIVE write_u64(_, _, _, _)
write_u64(page, begin, csn, k) ==
    IF k > 7 THEN page
    ELSE write_u64([page EXCEPT ![begin + k] = le_byte(csn, k)], begin, csn, k + 1)

\* The page after transaction_id_set_csn(xid, csn, page) returned.
transaction_id_set_csn(xid, csn, page) ==
    LET bytebegin == csn_bytebegin(xid)
        byteend == csn_byteend(xid)
    IN  write_u64(page, bytebegin, csn, 8 - (byteend - bytebegin))

\* Identifiers with the first and the last in-page index, two with the same
\* index on different pages (0 and 1024), and the largest identifier.
CsnXids ==
    {ToU32(0), ToU32(1), ToU32(CSN_LOG_XACTS_PER_PAGE), ToU32(123456789), U32_MAX}

\* 1, 0x0102030405060708, 0x8000000000000000 and u64::MAX.
CsnValues ==
    {<<0, 0, 0, 1>>, <<258, 772, 1286, 1800>>, <<W15, 0, 0, 0>>,
     <<W16 - 1, W16 - 1, W16 - 1, W16 - 1>>}

\* Buffers of BLCKSZ bytes with differing content, and a truncated buffer
\* that ends inside the entry of identifier 123456789 (bytes 2216 .. 2223).
CsnPages ==
    {PageOf(BLCKSZ, 0, 0), PageOf(BLCKSZ, 165, 3), PageOf(2220, 90, 0)}

\* The codec's arithmetic is on usize and stays below BLCKSZ + 1: one build
\* stands for both.
CsnInit ==
    /\ unit = "csn"
    /\ overflow_checks = FALSE
    /\ csn_page \in CsnPages
    /\ csn_before = csn_page
    /\ csn_xid = ToU32(0)
    /\ csn_value = <<0, 0, 0, 0>>
    /\ csn_outcome = "none"
    /\ csn_calls = 0
    /\ ClogIdle /\ OrdIdle /\ SlruIdle /\ MxIdle /\ PgIdle /\ RaceIdle
    /\ HistIdle /\ CliIdle

SetCsn(xid, csn) ==
    /\ unit = "csn"
    /\ csn_outcome # "panic"
    /\ csn_calls < MaxCalls
    /\ csn_calls' = csn_calls + 1
    /\ csn_xid' = xid
    /\ csn_value' = csn
    /\ csn_before' = csn_page
    /\ IF transaction_id_set_csn_panics(xid, csn_page)
       THEN csn_outcome' = "panic" /\ csn_page' = csn_page
       ELSE /\ csn_outcome' = "ok"
            /\ csn_page' = transaction_id_set_csn(xid, csn, csn_page)
    /\ UNCHANGED <<overflow_checks, unit, clog_vars, ord_vars, slru_vars, mx_vars,
                   pg_vars, race_vars,
                   hist_vars, cli_vars>>

CsnNext == \E xid \in CsnXids, csn \in CsnValues : SetCsn(xid, csn)

SpecCsn == CsnInit /\ [][CsnNext]_vars

---------------------------------------------------------------------------
(* Claims about the CSN codec *)

CsnFullPage == DOMAIN csn_page = 0 .. BLCKSZ - 1

\* The 16-bit word whose low byte is page[at] and whose high byte is
\* page[at + 1].
LeWord(page, at) == page[at] + 256 * page[at + 1]

\* The u64 that the 8 bytes at page[begin .. begin + 8) spell in little-endian
\* order, as four words, most significant first.
LeDecode(page, begin) ==
    <<LeWord(page, begin + 6), LeWord(page, begin + 4),
      LeWord(page, begin + 2), LeWord(page, begin)>>

\* C3: CSN write and read-back.  On a page of BLCKSZ bytes,
\* transaction_id_set_csn(xid, csn, page) leaves the page as it was except for
\* the 8 bytes at begin = (xid mod (BLCKSZ / 8)) * 8, which hold csn with the
\* least significant byte first; decoding them little-endian returns csn, and
\* the entry of every other in-page index is unchanged.
C3_CsnWriteReadBack ==
    (csn_outcome = "ok" /\ CsnFullPage) =>
        LET begin == u32_rem(csn_xid, BLCKSZ \div 8) * 8
        IN  /\ csn_page = [csn_before EXCEPT
                              ![begin] = csn_page[begin],
                              ![begin + 1] = csn_page[begin + 1],
                              ![begin + 2] = csn_page[begin + 2],
                              ![begin + 3] = csn_page[begin + 3],
                              ![begin + 4] = csn_page[begin + 4],
                              ![begin + 5] = csn_page[begin + 5],
                              ![begin + 6] = csn_page[begin + 6],
                              ![begin + 7] = csn_page[begin + 7]]
            /\ csn_page[begin] = csn_value[4] % 256
            /\ csn_page[begin + 7] = csn_value[1] \div 256
            /\ LeDecode(csn_page, begin) = csn_value
            /\ \A other \in CsnXids :
                   LET e == u32_rem(other, BLCKSZ \div 8)
                   IN  e * 8 # begin
                          => LeDecode(csn_page, e * 8) = LeDecode(csn_before, e * 8)

\* 0x0102030405060708 written for the largest identifier over other content:
\* the last entry of the page starts with byte 8 and ends with byte 1.
C3_Witness ==
    /\ csn_outcome = "ok" /\ CsnFullPage
    /\ csn_xid = U32_MAX
    /\ csn_value = <<258, 772, 1286, 1800>>
    /\ csn_page # csn_before
    /\ csn_page[BLCKSZ - 8] = 8
    /\ csn_page[BLCKSZ - 1] = 1
    /\ csn_before[0] # 0

---------------------------------------------------------------------------
(* Identifier ordering *)

\* Mutant: the difference is tested <= 0.
transaction_id_precedes_or_equal(id1, id2) ==
    LET diff == wrapping_sub(id1, id2)
    IN  diff[1] >= W15 \/ diff = <<0, 0>>

\* Mutant: plain unsigned comparison, no wraparound.
transaction_id_precedes_unsigned(id1, id2) == u32_lt(id1, id2)

\* diff = id1 - id2 with 32-bit wraparound, read as an i32: diff < 0, that is,
\* the sign bit of diff is set.
transaction_id_precedes(id1, id2) ==
    LET diff == wrapping_sub(id1, id2)
    IN  diff[1] >= W15

\* Identifiers around 0 (the reserved 0, 1, 2 and the first normal ones),
\* around 2^31, at the thirds of the domain and at its top.
OrdXids ==
    Near(ToU32(0)) \cup Near(ToU32(2)) \cup Near(U32(W15 - 1, W16 - 1))
        \cup Near(U32(W15, 2)) \cup Near(U32(21845, 21845))
        \cup Near(U32(43690, 43690)) \cup Near(U32(W16 - 1, W16 - 2))

\* The ordering is explicit wrapping arithmetic: one build stands for both.
OrdInit ==
    /\ unit = "ord"
    /\ overflow_checks = FALSE
    /\ ord_ids \in OrdXids \X OrdXids \X OrdXids
    /\ ord_res = [p \in OrdPairs |-> FALSE]
    /\ ord_done = FALSE
    /\ ClogIdle /\ CsnIdle /\ SlruIdle /\ MxIdle /\ PgIdle /\ RaceIdle
    /\ HistIdle /\ CliIdle

Precedes ==
    /\ unit = "ord"
    /\ ~ord_done
    /\ ord_done' = TRUE
    /\ LET a == ord_ids[1]
           b == ord_ids[2]
           c == ord_ids[3]
       IN  ord_res' =
               [p \in OrdPairs |->
                   CASE p = "aa" -> transaction_id_precedes(a, a)
                     [] p = "ab" -> transaction_id_precedes(a, b)
                     [] p = "ba" -> transaction_id_precedes(b, a)
                     [] p = "bc" -> transaction_id_precedes(b, c)
                     [] p = "cb" -> transaction_id_precedes(c, b)
                     [] p = "ac" -> transaction_id_precedes(a, c)
                     [] p = "ca" -> transaction_id_precedes(c, a)]
    /\ UNCHANGED <<overflow_checks, unit, ord_ids, clog_vars, csn_vars, slru_vars,
                   mx_vars, pg_vars, race_vars,
                   hist_vars, cli_vars>>

OrdNext == Precedes

SpecOrd == OrdInit /\ [][OrdNext]_vars

---------------------------------------------------------------------------
(* Claims about the identifier ordering *)

\* 2^31, half of the domain.
HalfDomain == <<W15, 0>>

\* How far y is ahead of x going upwards with wraparound: (y - x) mod 2^32.
Ahead(x, y) == wrapping_sub(y, x)

\* The wraparound distance of x and y is less than 2^31: going up from one of
\* them reaches the other in fewer than 2^31 steps.
WithinHalf(x, y) ==
    u32_lt(Ahead(x, y), HalfDomain) \/ u32_lt(Ahead(y, x), HalfDomain)

\* x + y <= 2^31 for two u32.
SumAtMostHalf(x, y) ==
    LET lo == x[2] + y[2]
        hi == x[1] + y[1] + lo \div W16
    IN  hi < W15 \/ (hi = W15 /\ lo % W16 = 0)

\* C4: trichotomy.  For identifiers a, b whose wraparound distance is less
\* than 2^31, exactly one of precedes(a, b), precedes(b, a), a = b holds.
C4_Trichotomy ==
    (ord_done /\ WithinHalf(ord_ids[1], ord_ids[2])) =>
        LET eq == ord_ids[1] = ord_ids[2]
        IN  /\ ord_res["ab"] \/ ord_res["ba"] \/ eq
            /\ ~(ord_res["ab"] /\ ord_res["ba"])
            /\ ~(ord_res["ab"] /\ eq)
            /\ ~(ord_res["ba"] /\ eq)

\* 2^31 + 2 and 0 are 2^31 - 2 apart across the wraparound point: only
\* precedes(2^31 + 2, 0) holds.
C4_Witness ==
    /\ ord_done
    /\ ord_ids[1] = U32(W15, 2)
    /\ ord_ids[2] = ToU32(0)
    /\ WithinHalf(ord_ids[1], ord_ids[2])
    /\ ord_res["ab"] /\ ~ord_res["ba"]

\* C5 as claimed: over the whole domain precedes(a, a) is false and
\* precedes(a, b), precedes(b, a) are never both true.
C5_StrictEverywhere ==
    ord_done => (~ord_res["aa"] /\ ~(ord_res["ab"] /\ ord_res["ba"]))

\* C5, amended: precedes(a, a) is false for every a, and precedes(a, b) and
\* precedes(b, a) are both true exactly when a and b are 2^31 apart.
C5_StrictButAtHalf ==
    ord_done =>
        /\ ~ord_res["aa"]
        /\ (ord_res["ab"] /\ ord_res["ba"])
               <=> (Ahead(ord_ids[1], ord_ids[2]) = HalfDomain)

\* The reserved identifier 2 and 2^31 + 2: each precedes the other.
C5_Witness ==
    /\ ord_done
    /\ ord_ids[1] = ToU32(2)
    /\ ord_ids[2] = U32(W15, 2)
    /\ ord_res["ab"] /\ ord_res["ba"] /\ ~ord_res["aa"]

\* C6 as claimed: for a, b, c pairwise less than 2^31 apart, precedes(a, b)
\* and precedes(b, c) imply precedes(a, c).
C6_TransitivePairwise ==
    (/\ ord_done
     /\ WithinHalf(ord_ids[1], ord_ids[2])
     /\ WithinHalf(ord_ids[2], ord_ids[3])
     /\ WithinHalf(ord_ids[1], ord_ids[3])
     /\ ord_res["ab"] /\ ord_res["bc"]) => ord_res["ac"]

\* C6, amended: given precedes(a, b) and precedes(b, c), precedes(a, c) holds
\* exactly when the way up from a through b to c, (b - a) + (c - b) with each
\* difference taken mod 2^32, is at most 2^31 long; three identifiers that are
\* only pairwise less than 2^31 apart can form a cycle.  Over the full range
\* the relation is not transitive.
C6_TransitiveWithinWindow ==
    /\ (ord_done /\ ord_res["ab"] /\ ord_res["bc"]) =>
           (ord_res["ac"] <=>
               SumAtMostHalf(Ahead(ord_ids[1], ord_ids[2]),
                             Ahead(ord_ids[2], ord_ids[3])))
    /\ \E a, b, c \in OrdXids :
           /\ transaction_id_precedes(a, b)
           /\ transaction_id_precedes(b, c)
           /\ ~transaction_id_precedes(a, c)

\* A chain across the wraparound point that is exactly 2^31 long: 2^31 + 2
\* precedes 0 precedes 2, and 2^31 + 2 precedes 2.
C6_Witness ==
    /\ ord_done
    /\ ord_ids = <<U32(W15, 2), ToU32(0), ToU32(2)>>
    /\ ord_res["ab"] /\ ord_res["bc"] /\ ord_res["ac"]

---------------------------------------------------------------------------
(* Segment retention *)

\* xid = page * CLOG_XACTS_PER_PAGE; xid += FIRST_NORMAL_TRANSACTION_ID + 1,
\* as a build without overflow checks computes it.
clogpage_xid(page) ==
    wrapping_add(wrapping_mul(page, CLOG_XACTS_PER_PAGE),
                 ToU32(FIRST_NORMAL_TRANSACTION_ID + 1))

\* One of the two steps exceeds u32::MAX.
clogpage_xid_overflows(page) ==
    \/ mul_overflows(page, CLOG_XACTS_PER_PAGE)
    \/ add_overflows(wrapping_mul(page, CLOG_XACTS_PER_PAGE),
                     ToU32(FIRST_NORMAL_TRANSACTION_ID + 1))

\* clogpage_precedes(page1, page2) panics: the build checks overflow and xid1,
\* xid2 or, when the first comparison holds and the second is evaluated,
\* xid2 + CLOG_XACTS_PER_PAGE overflows.
clogpage_precedes_panics(page1, page2) ==
    /\ overflow_checks
    /\ \/ clogpage_xid_overflows(page1)
       \/ clogpage_xid_overflows(page2)
       \/ /\ transaction_id_precedes(clogpage_xid(page1), clogpage_xid(page2))
          /\ add_overflows(clogpage_xid(page2), ToU32(CLOG_XACTS_PER_PAGE))

\* Some u32 result inside clogpage_precedes(page1, page2) exceeds u32::MAX,
\* whether the build panics on it or wraps.
clogpage_precedes_overflows(page1, page2) ==
    \/ clogpage_xid_overflows(page1)
    \/ clogpage_xid_overflows(page2)
    \/ /\ transaction_id_precedes(clogpage_xid(page1), clogpage_xid(page2))
       /\ add_overflows(clogpage_xid(page2), ToU32(CLOG_XACTS_PER_PAGE))

\* Mutant: the first identifiers of the two pages compared, nothing else.
clogpage_precedes_first_only(page1, page2) ==
    transaction_id_precedes(clogpage_xid(page1), clogpage_xid(page2))

\* The value clogpage_precedes(page1, page2) returns when it does not panic.
clogpage_precedes(page1, page2) ==
    LET xid1 == clogpage_xid(page1)
        xid2 == clogpage_xid(page2)
    IN  /\ transaction_id_precedes(xid1, xid2)
        /\ transaction_id_precedes(
               xid1,
               wrapping_sub(wrapping_add(xid2, ToU32(CLOG_XACTS_PER_PAGE)), ToU32(1)))

\* seg_last_page = segpage + SLRU_PAGES_PER_SEGMENT - 1.
seg_last_page(segpage) ==
    wrapping_sub(wrapping_add(segpage, ToU32(SLRU_PAGES_PER_SEGMENT)), ToU32(1))

\* How slru_may_delete_segment(segpage, cutoff_page) aborts, if it does, in the
\* order the code evaluates: the sum for seg_last_page, the assertion, the
\* first comparison and, when that holds, the second.
slru_may_delete_segment_abort(segpage, cutoff_page) ==
    IF overflow_checks /\ add_overflows(segpage, ToU32(SLRU_PAGES_PER_SEGMENT))
    THEN "overflow"
    ELSE IF u32_rem(segpage, SLRU_PAGES_PER_SEGMENT) # 0
    THEN "assert"
    ELSE IF clogpage_precedes_panics(segpage, cutoff_page)
    THEN "overflow"
    ELSE IF /\ clogpage_precedes(segpage, cutoff_page)
            /\ clogpage_precedes_panics(seg_last_page(segpage), cutoff_page)
    THEN "overflow"
    ELSE "none"

\* Mutant: only the first page of the segment is compared with the cutoff.
slru_may_delete_segment_first_only(segpage, cutoff_page) ==
    clogpage_precedes(segpage, cutoff_page)

\* Mutant: the arguments of the second comparison are swapped.
slru_may_delete_segment_swapped(segpage, cutoff_page) ==
    /\ clogpage_precedes(segpage, cutoff_page)
    /\ clogpage_precedes(cutoff_page, seg_last_page(segpage))

\* The value slru_may_delete_segment(segpage, cutoff_page) returns when it does
\* not abort.
slru_may_delete_segment(segpage, cutoff_page) ==
    /\ clogpage_precedes(segpage, cutoff_page)
    /\ clogpage_precedes(seg_last_page(segpage), cutoff_page)

\* Segment start pages: the first segment, segments in the upper half of the
\* CLOG, the last segment of the CLOG (131040), a start page past the pages
\* 32-bit identifiers address (131072), and the last aligned u32.
SlruAligned ==
    {ToU32(0), ToU32(65536), ToU32(98304), ToU32(131040), ToU32(131072),
     U32(W16 - 1, W16 - SLRU_PAGES_PER_SEGMENT)}

\* Start pages that are not a multiple of SLRU_PAGES_PER_SEGMENT.
SlruUnaligned ==
    {wrapping_add(s, ToU32(d)) :
        s \in {ToU32(0), ToU32(98304)}, d \in 1 .. MaxDelta}
        \cup {ToU32(SLRU_PAGES_PER_SEGMENT - 1), U32_MAX}

\* How far the cutoff pages lie ahead of the segment's start page: inside the
\* segment, just past it, 2^16 pages (2^31 identifiers) ahead and around.
SlruOffsets ==
    Near(ToU32(0)) \cup Near(ToU32(31)) \cup Near(ToU32(65535))
        \cup Near(ToU32(65566)) \cup Near(ToU32(131070))

\* The cutoff pages tried for a segment, and the last two pages of the CLOG.
SlruCutoffs(segpage) ==
    {wrapping_add(segpage, off) : off \in SlruOffsets} \cup Near(ToU32(131070))

SlruInit ==
    /\ unit = "slru"
    /\ overflow_checks \in BOOLEAN
    /\ slru_segpage \in SlruAligned \cup SlruUnaligned
    /\ slru_cutoff = <<0, 0>>
    /\ slru_result = "none"
    /\ slru_prev_cutoff = <<0, 0>>
    /\ slru_prev_result = "none"
    /\ slru_calls = 0
    /\ ClogIdle /\ CsnIdle /\ OrdIdle /\ MxIdle /\ PgIdle /\ RaceIdle
    /\ HistIdle /\ CliIdle

\* One call slru_may_delete_segment(slru_segpage, cutoff_page); an abort ends
\* the process.
MayDeleteSegment(cutoff_page) ==
    /\ unit = "slru"
    /\ slru_result \notin {"assert", "overflow"}
    /\ slru_calls < MaxCalls
    /\ slru_calls' = slru_calls + 1
    /\ slru_prev_cutoff' = slru_cutoff
    /\ slru_prev_result' = slru_result
    /\ slru_cutoff' = cutoff_page
    /\ slru_result' =
           IF slru_may_delete_segment_abort(slru_segpage, cutoff_page) # "none"
           THEN slru_may_delete_segment_abort(slru_segpage, cutoff_page)
           ELSE IF slru_may_delete_segment(slru_segpage, cutoff_page)
           THEN "true"
           ELSE "false"
    /\ UNCHANGED <<overflow_checks, unit, slru_segpage, clog_vars, csn_vars,
                   ord_vars, mx_vars, pg_vars, race_vars,
                   hist_vars, cli_vars>>

SlruNext == \E cutoff_page \in SlruCutoffs(slru_segpage) : MayDeleteSegment(cutoff_page)

SpecSlru == SlruInit /\ [][SlruNext]_vars

---------------------------------------------------------------------------
(* CLOG page ordering *)

\* What a call clogpage_precedes(page1, page2) does.
clogpage_precedes_result(page1, page2) ==
    IF clogpage_precedes_panics(page1, page2) THEN "overflow"
    ELSE IF clogpage_precedes(page1, page2) THEN "true"
    ELSE "false"

\* CLOG pages: the first, those 2^16 pages (2^31 identifiers) after it, one
\* in the upper half, the last two (131071 holds u32::MAX), and two page
\* numbers past the pages that 32-bit identifiers address.
ClogPageNumbers ==
    Near(ToU32(0)) \cup Near(ToU32(65535)) \cup Near(ToU32(98304))
        \cup Near(ToU32(131070)) \cup {ToU32(131072), U32_MAX}

ClogPageInit ==
    /\ unit = "clogpage"
    /\ overflow_checks \in BOOLEAN
    /\ pg_page1 \in ClogPageNumbers
    /\ pg_page2 \in ClogPageNumbers
    /\ pg_out = PgNone
    /\ pg_done = FALSE
    /\ ClogIdle /\ CsnIdle /\ OrdIdle /\ SlruIdle /\ MxIdle /\ RaceIdle /\ HistIdle
    /\ CliIdle

\* clogpage_precedes called on the two pages in both orders and on page1 with
\* itself.
ClogPagePrecedes ==
    /\ unit = "clogpage"
    /\ ~pg_done
    /\ pg_done' = TRUE
    /\ pg_out' =
           [fwd |-> clogpage_precedes_result(pg_page1, pg_page2),
            bwd |-> clogpage_precedes_result(pg_page2, pg_page1),
            self |-> clogpage_precedes_result(pg_page1, pg_page1),
            overflowed |->
                \/ clogpage_precedes_overflows(pg_page1, pg_page2)
                \/ clogpage_precedes_overflows(pg_page2, pg_page1)
                \/ clogpage_precedes_overflows(pg_page1, pg_page1)]
    /\ UNCHANGED <<overflow_checks, unit, pg_page1, pg_page2, clog_vars, csn_vars,
                   ord_vars, slru_vars, mx_vars, race_vars, hist_vars,
                   cli_vars>>

ClogPageNext == ClogPagePrecedes

SpecClogPage == ClogPageInit /\ [][ClogPageNext]_vars

---------------------------------------------------------------------------
(* Claims about segment retention *)

SlruCalled == slru_result # "none"

SlruAlignedStart == u32_rem(slru_segpage, 32) = 0

\* clogpage_precedes(page, cutoff_page) returns true.
PagePrecedes(page, cutoff_page) ==
    ~clogpage_precedes_panics(page, cutoff_page)
        /\ clogpage_precedes(page, cutoff_page)

\* C7: retention covers the whole segment.  For a start page that is a
\* multiple of 32 and any cutoff page, slru_may_delete_segment returns true if
\* and only if clogpage_precedes(p, cutoff_page) returns true for every page p
\* of segpage .. segpage + 31.
C7_WholeSegment ==
    (SlruCalled /\ SlruAlignedStart) =>
        ((slru_result = "true") <=>
            \A j \in 0 .. 31 :
                PagePrecedes(wrapping_add(slru_segpage, ToU32(j)), slru_cutoff))

\* A segment in the upper half of the CLOG and the last CLOG page as cutoff,
\* whose last identifier is u32::MAX (xid2 + CLOG_XACTS_PER_PAGE wraps): every
\* page of the segment precedes it and the segment may be deleted.
C7_Witness ==
    /\ ~overflow_checks
    /\ slru_segpage = ToU32(98304)
    /\ slru_cutoff = ToU32(131071)
    /\ slru_result = "true"
    /\ \A j \in 0 .. 31 :
           PagePrecedes(wrapping_add(slru_segpage, ToU32(j)), slru_cutoff)

\* The pages the cutoff lies ahead of the segment's start page, counted on the
\* cycle of 2^17 CLOG pages that 2^32 identifiers fill.
PagesAhead(segpage, cutoff_page) ==
    LET d == wrapping_sub(cutoff_page, segpage)
    IN  (d[1] % 2) * W16 + d[2]

\* C8 as claimed: if slru_may_delete_segment(seg, cutoff) holds and
\* precedes(cutoff, cutoff'), then slru_may_delete_segment(seg, cutoff') holds.
\* Stated for the build whose arithmetic wraps, where no call aborts on
\* overflow.
C8_Monotone ==
    (/\ ~overflow_checks
     /\ slru_prev_result = "true"
     /\ SlruCalled
     /\ transaction_id_precedes(slru_prev_cutoff, slru_cutoff))
        => slru_result = "true"

\* C8, amended: if slru_may_delete_segment(seg, cutoff) returns true and
\* cutoff' is d > 0 pages ahead of cutoff with cutoff' still less than 2^16
\* pages (2^31 identifiers, the comparison horizon) ahead of seg, then
\* slru_may_delete_segment(seg, cutoff') does not return false: it returns
\* true, or in a build with overflow checks aborts on a u32 overflow.
C8_MonotoneWithinHorizon ==
    (/\ slru_prev_result = "true"
     /\ SlruCalled
     /\ transaction_id_precedes(slru_prev_cutoff, slru_cutoff)
     /\ LET d == wrapping_sub(slru_cutoff, slru_prev_cutoff)
        IN  d[1] = 0 /\ PagesAhead(slru_segpage, slru_prev_cutoff) + d[2] < W16)
        => /\ slru_result # "false"
           /\ ~overflow_checks => slru_result = "true"

\* The cutoff advanced from just past the segment to 65535 pages ahead of it,
\* and the segment may still be deleted.
C8_Witness ==
    /\ slru_segpage = ToU32(65536)
    /\ slru_prev_cutoff = ToU32(65536 + 32)
    /\ slru_prev_result = "true"
    /\ slru_cutoff = ToU32(131071)
    /\ transaction_id_precedes(slru_prev_cutoff, slru_cutoff)
    /\ slru_result = "true"

\* Pages that 32-bit identifiers address: 0 .. 2^17 - 1.
InClogRange(page) == page[1] < 2

\* C9 as claimed: slru_may_delete_segment aborts, instead of returning a
\* boolean, exactly when segpage is not a multiple of 32; stated for start and
\* cutoff pages that 32-bit identifiers address.
C9_AbortsOnlyWhenMisaligned ==
    (SlruCalled /\ InClogRange(slru_segpage) /\ InClogRange(slru_cutoff)) =>
        ((slru_result \notin {"true", "false"}) <=> ~SlruAlignedStart)

---------------------------------------------------------------------------
(* MultiXact member addressing *)

\* Mutant: % and * grouped as a % (b * c).
mx_offset_to_flags_offset_grouped(xid) ==
    u32_rem(u32_div(xid, MULTIXACT_MEMBERS_PER_MEMBERGROUP),
            MULTIXACT_MEMBERGROUPS_PER_PAGE * MULTIXACT_MEMBERGROUP_SIZE)

mx_offset_to_flags_offset(xid) ==
    u32_rem(u32_div(xid, MULTIXACT_MEMBERS_PER_MEMBERGROUP),
            MULTIXACT_MEMBERGROUPS_PER_PAGE)
        * MULTIXACT_MEMBERGROUP_SIZE

mx_offset_to_flags_bitshift(xid) ==
    (as_u16(xid) % MULTIXACT_MEMBERS_PER_MEMBERGROUP) * MXACT_MEMBER_BITS_PER_XACT

\* Mutant: member slots 8 bytes apart.
mx_offset_to_member_offset_wide(xid) ==
    mx_offset_to_flags_offset(xid)
        + (MULTIXACT_FLAGBYTES_PER_GROUP
              + (as_u16(xid) % MULTIXACT_MEMBERS_PER_MEMBERGROUP) * 8)

mx_offset_to_member_offset(xid) ==
    mx_offset_to_flags_offset(xid)
        + (MULTIXACT_FLAGBYTES_PER_GROUP
              + (as_u16(xid) % MULTIXACT_MEMBERS_PER_MEMBERGROUP) * 4)

\* (xid / MULTIXACT_MEMBERS_PER_PAGE) * MAX_REGIONS stays below 2^28; adding
\* region can exceed u32::MAX.
mx_offset_to_member_page_panics(xid, region) ==
    /\ overflow_checks
    /\ add_overflows(
           wrapping_mul(u32_div(xid, MULTIXACT_MEMBERS_PER_PAGE), MAX_REGIONS),
           region)

\* Mutant: the region added to the logical page, not scaled by MAX_REGIONS.
mx_offset_to_member_page_unscaled(xid, region) ==
    wrapping_add(u32_div(xid, MULTIXACT_MEMBERS_PER_PAGE), region)

mx_offset_to_member_page(xid, region) ==
    wrapping_add(
        wrapping_mul(u32_div(xid, MULTIXACT_MEMBERS_PER_PAGE), MAX_REGIONS),
        region)

\* Mutant: the page divided by the number of regions.
mx_offset_to_member_segment_by_regions(xid, region) ==
    u32_div(mx_offset_to_member_page(xid, region), MAX_REGIONS)

\* The quotient is below 2^27, so `as i32` leaves it as it is.
mx_offset_to_member_segment(xid, region) ==
    u32_div(mx_offset_to_member_page(xid, region), SLRU_PAGES_PER_SEGMENT)

\* Some intermediate result of the five functions exceeds the width it is
\* computed in: u32 for the flags offset and the page, u16 for the bit shift
\* and the member slot, i32 for the segment.
mx_offset_overflows(xid, region) ==
    \/ (u32_rem(u32_div(xid, MULTIXACT_MEMBERS_PER_MEMBERGROUP),
                MULTIXACT_MEMBERGROUPS_PER_PAGE)
            * MULTIXACT_MEMBERGROUP_SIZE) \div W16 >= W16
    \/ (as_u16(xid) % MULTIXACT_MEMBERS_PER_MEMBERGROUP)
            * MXACT_MEMBER_BITS_PER_XACT >= W16
    \/ MULTIXACT_FLAGBYTES_PER_GROUP
            + (as_u16(xid) % MULTIXACT_MEMBERS_PER_MEMBERGROUP) * 4 >= W16
    \/ mul_overflows(u32_div(xid, MULTIXACT_MEMBERS_PER_PAGE), MAX_REGIONS)
    \/ add_overflows(
           wrapping_mul(u32_div(xid, MULTIXACT_MEMBERS_PER_PAGE), MAX_REGIONS),
           region)
    \/ mx_offset_to_member_segment(xid, region)[1] >= W15

\* Member ids at the ends of a group (3, 4), of a page (1635, 1636), of the
\* 16-bit range (65535, 65536), the test's ids and the top of the domain.
MxXids ==
    Near(ToU32(0)) \cup Near(ToU32(3)) \cup Near(ToU32(1635))
        \cup Near(ToU32(65535)) \cup Near(ToU32(123456789))
        \cup Near(U32(W16 - 1, W16 - 2))

\* The first regions, the last of MAX_REGIONS, and the largest u32.
MxRegions == {ToU32(0), ToU32(1), ToU32(MAX_REGIONS - 1), U32_MAX}

MxInit ==
    /\ unit = "mx"
    /\ overflow_checks \in BOOLEAN
    /\ mx_xid \in MxXids
    /\ mx_region \in MxRegions
    /\ mx_out = MxNone
    /\ mx_xid2 \in MxXids
    /\ mx_region2 \in MxRegions
    /\ mx_page2 = [page |-> <<0, 0>>, panic |-> FALSE]
    /\ mx_done = FALSE
    /\ ClogIdle /\ CsnIdle /\ OrdIdle /\ SlruIdle /\ PgIdle /\ RaceIdle
    /\ HistIdle /\ CliIdle

\* The five functions called for one member id and region, and
\* mx_offset_to_member_page for a second member id and region.
MxAddress ==
    /\ unit = "mx"
    /\ ~mx_done
    /\ mx_done' = TRUE
    /\ mx_out' =
           [flags_offset |-> mx_offset_to_flags_offset(mx_xid),
            flags_bitshift |-> mx_offset_to_flags_bitshift(mx_xid),
            member_offset |-> mx_offset_to_member_offset(mx_xid),
            page_panic |-> mx_offset_to_member_page_panics(mx_xid, mx_region),
            overflowed |-> mx_offset_overflows(mx_xid, mx_region),
            member_page |->
                IF mx_offset_to_member_page_panics(mx_xid, mx_region)
                THEN <<0, 0>>
                ELSE mx_offset_to_member_page(mx_xid, mx_region),
            member_segment |->
                IF mx_offset_to_member_page_panics(mx_xid, mx_region)
                THEN <<0, 0>>
                ELSE mx_offset_to_member_segment(mx_xid, mx_region)]
    /\ mx_page2' =
           IF mx_offset_to_member_page_panics(mx_xid2, mx_region2)
           THEN [page |-> <<0, 0>>, panic |-> TRUE]
           ELSE [page |-> mx_offset_to_member_page(mx_xid2, mx_region2),
                 panic |-> FALSE]
    /\ UNCHANGED <<overflow_checks, unit, mx_xid, mx_region, mx_xid2, mx_region2,
                   clog_vars, csn_vars, ord_vars, slru_vars, pg_vars, race_vars,
                   hist_vars, cli_vars>>

MxNext == MxAddress

SpecMx == MxInit /\ [][MxNext]_vars

---------------------------------------------------------------------------
(* Claims about MultiXact member addressing *)

\* The rows of test_multixid_calc: member id, flags offset, bit shift, member
\* offset.
MxTestRows ==
    {<<ToU32(0), 0, 0, 4>>,
     <<ToU32(1), 0, 8, 8>>,
     <<ToU32(123456789), 4780, 8, 4788>>,
     <<U32(W16 - 1, W16 - 2), 5160, 16, 5172>>,
     <<U32_MAX, 5160, 24, 5176>>}

\* C10: in-page addressing matches the reference formulas for every member id:
\* flags offset ((id / 4) mod 409) * 20, bit shift (id mod 4) * 8, member offset
\* flags offset + 4 + (id mod 4) * 4, the modulo taken on the full 32-bit id
\* (the code takes it on the id truncated to 16 bits); and the five test rows
\* yield the listed values.
C10_MxInPageAddressing ==
    mx_done =>
        LET ref_flags == u32_rem(u32_div(mx_xid, 4), 409) * 20
            ref_slot == u32_rem(mx_xid, 4)
        IN  /\ mx_out.flags_offset = ref_flags
            /\ mx_out.flags_bitshift = ref_slot * 8
            /\ mx_out.member_offset = ref_flags + 4 + ref_slot * 4
            /\ as_u16(mx_xid) % 4 = ref_slot
            /\ \A row \in MxTestRows :
                   row[1] = mx_xid =>
                       /\ mx_out.flags_offset = row[2]
                       /\ mx_out.flags_bitshift = row[3]
                       /\ mx_out.member_offset = row[4]

\* The row of the test for 123456789, whose upper 16 bits are not zero.
C10_Witness ==
    /\ mx_done
    /\ mx_xid = ToU32(123456789)
    /\ mx_out.flags_offset = 4780
    /\ mx_out.flags_bitshift = 8
    /\ mx_out.member_offset = 4788

\* The rows of test_multixid_calc for region 0: member id, member page,
\* member segment.
MxPageRows ==
    {<<ToU32(0), ToU32(0), ToU32(0)>>,
     <<ToU32(1), ToU32(0), ToU32(0)>>,
     <<ToU32(123456789), ToU32(4829568), ToU32(150924)>>,
     <<U32(W16 - 1, W16 - 2), ToU32(168018240), ToU32(5250570)>>,
     <<U32_MAX, ToU32(168018240), ToU32(5250570)>>}

\* (id / 1636) * 64 as an integer: at most 168018240.
RefPageBase(id) ==
    LET q == u32_div(id, 1636) IN (q[1] * W16 + q[2]) * 64

\* (id / 1636) * 64 + region does not exceed u32::MAX.
RefPageFits(id, region) ==
    ~u32_lt(wrapping_sub(U32_MAX, region), ToU32(RefPageBase(id)))

\* The member page and segment returned equal the reference formulas and the
\* rows of the test.
MxPageAsReference ==
    /\ ~mx_out.page_panic
    /\ mx_out.member_page = wrapping_add(ToU32(RefPageBase(mx_xid)), mx_region)
    /\ mx_out.member_segment = u32_div(mx_out.member_page, 32)
    /\ mx_out.member_segment[1] < W15
    /\ \A row \in MxPageRows :
           (row[1] = mx_xid /\ mx_region = ToU32(0)) =>
               /\ mx_out.member_page = row[2]
               /\ mx_out.member_segment = row[3]

C13_MxTotal ==
    mx_done => (~mx_out.page_panic /\ ~mx_out.overflowed)

\* For every member id the in-page functions never overflow, and with a region
\* below the number of regions the page and the segment do not either.
MxTotalForRegions ==
    (mx_done /\ mx_region[1] = 0 /\ mx_region[2] < MAX_REGIONS)
        => (~mx_out.page_panic /\ ~mx_out.overflowed)

\* The region is an index of one of the MAX_REGIONS regions.
IsRegion(region) == region[1] = 0 /\ region[2] < MAX_REGIONS

\* C12: two member ids in regions below the number of regions map to the same
\* physical page only when the regions are equal and the ids lie on the same
\* logical page (id / 1636).
C12_RegionsNeverCollide ==
    (/\ mx_done
     /\ IsRegion(mx_region) /\ IsRegion(mx_region2)
     /\ ~mx_out.page_panic /\ ~mx_page2.panic
     /\ mx_out.member_page = mx_page2.page)
        => /\ mx_region = mx_region2
           /\ u32_div(mx_xid, 1636) = u32_div(mx_xid2, 1636)

\* Members 1635 and 0, both on logical page 0, in region 1: the same page 1.
C12_Witness ==
    /\ mx_done
    /\ mx_xid = ToU32(1635) /\ mx_xid2 = ToU32(0)
    /\ mx_region = ToU32(1) /\ mx_region2 = ToU32(1)
    /\ mx_out.member_page = ToU32(1)
    /\ mx_page2 = [page |-> ToU32(1), panic |-> FALSE]

---------------------------------------------------------------------------
(* The two codecs on truncated buffers *)

\* The length of a page buffer.
PageLen(page) == Cardinality(DOMAIN page)

\* Either codec handed a buffer shorter than BLCKSZ.
TruncatedInit ==
    \/ ClogInit /\ PageLen(clog_page) < BLCKSZ
    \/ CsnInit /\ PageLen(csn_page) < BLCKSZ

SpecTruncated == TruncatedInit /\ [][ClogNext \/ CsnNext]_vars

\* C14: a call of transaction_id_set_status on a buffer no longer than the byte
\* index (xid mod 32768) / 4, or of transaction_id_set_csn on a buffer shorter
\* than (xid mod 1024) * 8 + 8, aborts and leaves every byte of the buffer as
\* it was: no partial or relocated entry, no normal return.
C14_TruncatedPageFailsFast ==
    /\ (/\ unit = "clog" /\ clog_calls > 0
        /\ PageLen(clog_before) <= u32_rem(clog_xid, 32768) \div 4)
           => (clog_outcome = "panic" /\ clog_page = clog_before)
    /\ (/\ unit = "csn" /\ csn_calls > 0
        /\ PageLen(csn_before) < u32_rem(csn_xid, 1024) * 8 + 8)
           => (csn_outcome = "panic" /\ csn_page = csn_before)

\* transaction_id_set_csn for 123456789 on a buffer that holds the first four
\* bytes of its entry only, after an earlier call on that buffer returned.
C14_Witness ==
    /\ unit = "csn"
    /\ csn_calls = 2
    /\ csn_xid = ToU32(123456789)
    /\ PageLen(csn_before) = 2220
    /\ csn_outcome = "panic"
    /\ csn_page = csn_before
    /\ csn_page # PageOf(2220, 90, 0)

\* transaction_id_set_status for 123456789 on a buffer as long as its byte
\* index.
ClogTruncatedAtByte ==
    /\ unit = "clog"
    /\ clog_xid = ToU32(123456789)
    /\ PageLen(clog_before) = 4933
    /\ clog_outcome = "panic"

---------------------------------------------------------------------------
(* Claims about the layout of a MultiXact member page *)

\* The bytes of a member page covered by its groups.
MxGroupBytes == MULTIXACT_MEMBERGROUPS_PER_PAGE * MULTIXACT_MEMBERGROUP_SIZE

\* C15 as stated: with 4 members and 4 flag bytes per group, groups of 20
\* bytes and BLCKSZ / 20 groups per page, the groups cover exactly BLCKSZ
\* bytes, so every byte of a member page lies in some group.
C15_GroupsTilePage ==
    mx_done =>
        /\ MULTIXACT_MEMBERS_PER_MEMBERGROUP = 4
        /\ MULTIXACT_MEMBERGROUP_SIZE = 20
        /\ MxGroupBytes = BLCKSZ
        /\ \A b \in 0 .. BLCKSZ - 1 :
               b \div MULTIXACT_MEMBERGROUP_SIZE < MULTIXACT_MEMBERGROUPS_PER_PAGE

\* C15, amended: the 409 groups of 20 bytes cover the first 8180 bytes of the
\* page, 12 bytes short of BLCKSZ; the flags and the member slot of every
\* member id lie inside one group, so inside those 8180 bytes, and the last
\* 12 bytes of a member page belong to no group.
C15_GroupsLeaveTail ==
    mx_done =>
        /\ MULTIXACT_MEMBERS_PER_MEMBERGROUP = 4
        /\ MULTIXACT_MEMBERGROUP_SIZE = 20
        /\ MULTIXACT_MEMBERGROUPS_PER_PAGE = 409
        /\ MxGroupBytes = 8180
        /\ BLCKSZ - MxGroupBytes = 12
        /\ mx_out.flags_offset % MULTIXACT_MEMBERGROUP_SIZE = 0
        /\ mx_out.flags_offset + MULTIXACT_MEMBERGROUP_SIZE <= MxGroupBytes
        /\ mx_out.flags_offset + MULTIXACT_FLAGBYTES_PER_GROUP
               <= mx_out.member_offset
        /\ mx_out.member_offset + 4
               <= mx_out.flags_offset + MULTIXACT_MEMBERGROUP_SIZE
        /\ mx_out.flags_bitshift \div MXACT_MEMBER_BITS_PER_XACT
               < MULTIXACT_FLAGBYTES_PER_GROUP

\* Member 1635, the last member of the last group: its slot is bytes
\* 8176 .. 8179, the last bytes that belong to a group.
C15_Witness ==
    /\ mx_done
    /\ mx_xid = ToU32(1635)
    /\ mx_out.flags_offset = 8160
    /\ mx_out.member_offset = 8176
    /\ mx_out.member_offset + 4 = MxGroupBytes
    /\ MxGroupBytes < BLCKSZ

---------------------------------------------------------------------------
(* The CLOG page as a map from in-page entry index to status *)

\* The status that the bytes of page spell for in-page entry e.
DecodeEntry(page, e) == (page[e \div 4] \div (4 ^ (e % 4))) % 4

\* The abstract map at entry e after the calls log[1 .. n] on the page initial:
\* the status of the most recent call whose identifier is congruent to e
\* modulo 32768, or what initial holds for e when there is none.
RECURSIVE LastWrite(_, _, _, _)
LastWrite(initial, log, n, e) ==
    IF n = 0 THEN DecodeEntry(initial, e)
    ELSE IF u32_rem(log[n][1], 32768) = e THEN log[n][2]
    ELSE LastWrite(initial, log, n - 1, e)

\* The page initial with the bytes of the entries written by log[1 .. n] taken
\* from page.
RECURSIVE WithWrittenBytes(_, _, _, _)
WithWrittenBytes(initial, page, log, n) ==
    IF n = 0 THEN initial
    ELSE LET b == u32_rem(log[n][1], 32768) \div 4
         IN  [WithWrittenBytes(initial, page, log, n - 1) EXCEPT ![b] = page[b]]

\* The in-page entries that share a byte with an entry written by the log.
EntriesOfWrittenBytes(log) ==
    {4 * (u32_rem(log[n][1], 32768) \div 4) + k : n \in DOMAIN log, k \in 0 .. 3}

\* C16: after any sequence of transaction_id_set_status calls made one at a
\* time on a page, the bytes of the page decode to the map that gives every
\* in-page entry the status of the most recent call for an identifier congruent
\* to it modulo 32768, or the initial page's status when there was none, and
\* transaction_id_get_status returns that status for every identifier.
C16_LastWriteWins ==
    unit = "cloghist" =>
        LET n == Len(hist_log)
        IN  /\ hist_page = WithWrittenBytes(hist_initial, hist_page, hist_log, n)
            /\ \A e \in EntriesOfWrittenBytes(hist_log) :
                   DecodeEntry(hist_page, e) = LastWrite(hist_initial, hist_log, n, e)
            /\ \A xid \in ClogXids :
                   transaction_id_get_status(xid, hist_page)
                       = LastWrite(hist_initial, hist_log, n, u32_rem(xid, 32768))

\* Two calls for one in-page entry through different identifiers (32768 with
\* status 2, then 0 with status 1) on a page with content: the second status
\* is read for both, and the neighbour in the same byte keeps the initial
\* page's status.
C16_Witness ==
    /\ unit = "cloghist"
    /\ hist_log = <<<<ToU32(32768), 2>>, <<ToU32(0), 1>>>>
    /\ transaction_id_get_status(ToU32(32768), hist_initial) = 0
    /\ transaction_id_get_status(ToU32(32768), hist_page) = 1
    /\ transaction_id_get_status(ToU32(0), hist_page) = 1
    /\ transaction_id_get_status(ToU32(1), hist_initial) = 1
    /\ transaction_id_get_status(ToU32(1), hist_page) = 1

---------------------------------------------------------------------------
(* Claims about concurrent CLOG writers *)

\* Both calls have returned.
RaceDone == unit = "race" /\ \A w \in Writers : race_pc[w] = "done"

\* The status the shared byte holds for writer w's identifier.
RaceStatusOf(w) == (race_page \div (2 ^ clog_bshift(race_xids[w]))) % 4

\* The byte does not hold the status that writer w stored.
LostUpdate(w) == RaceStatusOf(w) # race_status[w]

\* C17: two transaction_id_set_status calls for identifiers that share a byte,
\* each a read of page[byteno] followed by a write of it.  Run serialized
\* (single writer per page) they never end with a status other than the one
\* its writer stored; a final state with a lost update arises only when they
\* run concurrently, and then some interleaving produces it (C17_Witness).
C17_LostUpdateOnlyWhenConcurrent ==
    (RaceDone /\ \E w \in Writers : LostUpdate(w)) => ~race_locked

\* Without synchronization: identifiers 0 and 1 store 1 and 2 into a zero byte,
\* both read it before either writes, and the byte ends holding only one of
\* the two statuses.
C17_Witness ==
    /\ RaceDone
    /\ ~race_locked
    /\ race_xids = <<ToU32(0), ToU32(1)>>
    /\ race_status = <<1, 2>>
    /\ race_read = <<0, 0>>
    /\ LostUpdate(1)
    /\ ~LostUpdate(2)

\* Serialized, the same two calls end with both statuses in the byte.
RaceSerializedKeepsBoth ==
    /\ RaceDone
    /\ race_locked
    /\ race_xids = <<ToU32(0), ToU32(1)>>
    /\ race_status = <<1, 2>>
    /\ race_page = 9

---------------------------------------------------------------------------
(* Claims about the CLOG page ordering *)

ClogPageCalled == unit = "clogpage" /\ pg_done

\* C18: for CLOG pages that 32-bit identifiers address (0 .. 2^17 - 1, the
\* last holding u32::MAX), clogpage_precedes computes page * 32768,
\* + FIRST_NORMAL_TRANSACTION_ID + 1 and xid2 + 32768 - 1 with no u32 result
\* above u32::MAX, and so never aborts.
C18_NoArithmeticAbort ==
    (ClogPageCalled /\ InClogRange(pg_page1) /\ InClogRange(pg_page2)) =>
        /\ ~pg_out.overflowed
        /\ pg_out.fwd # "overflow" /\ pg_out.bwd # "overflow"
        /\ pg_out.self # "overflow"

\* The overflow inside the CLOG range is that of xid2 + CLOG_XACTS_PER_PAGE for
\* the last page, 131071, taken as page2 when the first comparison holds.
ClogPageOverflowOnlyAtLastPage ==
    (ClogPageCalled /\ InClogRange(pg_page1) /\ InClogRange(pg_page2)) =>
        /\ pg_out.self = "false"
        /\ pg_out.overflowed =>
               (pg_page2 = ToU32(131071) \/ pg_page1 = ToU32(131071))
        /\ pg_out.overflowed = (overflow_checks /\ "overflow" \in {pg_out.fwd, pg_out.bwd})
               \/ ~overflow_checks
        /\ pg_out.fwd = "overflow" =>
               (overflow_checks /\ pg_page2 = ToU32(131071))

\* C19: clogpage_precedes is strict.  clogpage_precedes(p, p) is false for
\* every CLOG page p, and clogpage_precedes(p1, p2) and clogpage_precedes(p2,
\* p1) are never both true, pages whose first identifiers are 2^31 apart
\* included.
C19_ClogPageStrict ==
    ClogPageCalled =>
        /\ InClogRange(pg_page1) => pg_out.self = "false"
        /\ pg_out.self # "true"
        /\ ~(pg_out.fwd = "true" /\ pg_out.bwd = "true")

\* Pages 0 and 65536, whose first identifiers (4 and 2^31 + 4) are exactly 2^31
\* apart: transaction_id_precedes holds in both directions, clogpage_precedes
\* in neither.
C19_Witness ==
    /\ ClogPageCalled
    /\ pg_page1 = ToU32(0) /\ pg_page2 = ToU32(65536)
    /\ transaction_id_precedes(clogpage_xid(pg_page1), clogpage_xid(pg_page2))
    /\ transaction_id_precedes(clogpage_xid(pg_page2), clogpage_xid(pg_page1))
    /\ pg_out.fwd = "false" /\ pg_out.bwd = "false" /\ pg_out.self = "false"

\* A pair ordered one way only.
ClogPageOrdered ==
    /\ ClogPageCalled
    /\ pg_page1 = ToU32(98304) /\ pg_page2 = ToU32(131070)
    /\ pg_out.fwd = "true" /\ pg_out.bwd = "false"

---------------------------------------------------------------------------
(* CSN-log page ordering *)

\* xid = (page / MAX_REGIONS) * CSN_LOG_XACTS_PER_PAGE;
\* xid += FIRST_NORMAL_TRANSACTION_ID + 1, as a build without overflow checks
\* computes it.
csnlogpage_xid(page) ==
    wrapping_add(wrapping_mul(u32_div(page, MAX_REGIONS), CSN_LOG_XACTS_PER_PAGE),
                 ToU32(FIRST_NORMAL_TRANSACTION_ID + 1))

\* One of the two steps exceeds u32::MAX.
csnlogpage_xid_overflows(page) ==
    \/ mul_overflows(u32_div(page, MAX_REGIONS), CSN_LOG_XACTS_PER_PAGE)
    \/ add_overflows(wrapping_mul(u32_div(page, MAX_REGIONS), CSN_LOG_XACTS_PER_PAGE),
                     ToU32(FIRST_NORMAL_TRANSACTION_ID + 1))

\* Some u32 result inside csnlogpage_precedes(page1, page2) exceeds u32::MAX;
\* nothing is computed when the pages are of different regions.
csnlogpage_precedes_overflows(page1, page2) ==
    /\ u32_rem(page1, MAX_REGIONS) = u32_rem(page2, MAX_REGIONS)
    /\ csnlogpage_xid_overflows(page1) \/ csnlogpage_xid_overflows(page2)

\* csnlogpage_precedes(page1, page2) panics.
csnlogpage_precedes_panics(page1, page2) ==
    overflow_checks /\ csnlogpage_precedes_overflows(page1, page2)

\* Mutant: pages compared whatever their regions.
csnlogpage_precedes_any_region(page1, page2) ==
    transaction_id_precedes(csnlogpage_xid(page1), csnlogpage_xid(page2))

\* The value csnlogpage_precedes(page1, page2) returns when it does not panic.
csnlogpage_precedes(page1, page2) ==
    IF u32_rem(page1, MAX_REGIONS) # u32_rem(page2, MAX_REGIONS)
    THEN FALSE
    ELSE transaction_id_precedes(csnlogpage_xid(page1), csnlogpage_xid(page2))

\* What a call csnlogpage_precedes(page1, page2) does.
csnlogpage_precedes_result(page1, page2) ==
    IF csnlogpage_precedes_panics(page1, page2) THEN "overflow"
    ELSE IF csnlogpage_precedes(page1, page2) THEN "true"
    ELSE "false"

\* Pages of one region, by the identifiers' page: the first, those 2^21 pages
\* (2^31 identifiers) after it, and the last (4194303 holds u32::MAX).
CsnLogPagesOfRegion ==
    Near(ToU32(0)) \cup Near(ToU32(2097151)) \cup Near(ToU32(4194302))

\* Regions of the sampled pages.
CsnLogRegions == {0, 1, MAX_REGIONS - 1}

\* Physical CSN-log pages, and two page numbers past those that 32-bit
\* identifiers address (2^28 and the largest u32).
CsnLogPageNumbers ==
    {wrapping_add(wrapping_mul(p, MAX_REGIONS), ToU32(r)) :
        p \in CsnLogPagesOfRegion, r \in CsnLogRegions}
        \cup {U32(4096, 0), U32_MAX}

CsnLogPageInit ==
    /\ unit = "csnlogpage"
    /\ overflow_checks \in BOOLEAN
    /\ pg_page1 \in CsnLogPageNumbers
    /\ pg_page2 \in CsnLogPageNumbers
    /\ pg_out = PgNone
    /\ pg_done = FALSE
    /\ ClogIdle /\ CsnIdle /\ OrdIdle /\ SlruIdle /\ MxIdle /\ RaceIdle /\ HistIdle
    /\ CliIdle

\* csnlogpage_precedes called on the two pages in both orders and on page1
\* with itself.
CsnLogPagePrecedes ==
    /\ unit = "csnlogpage"
    /\ ~pg_done
    /\ pg_done' = TRUE
    /\ pg_out' =
           [fwd |-> csnlogpage_precedes_result(pg_page1, pg_page2),
            bwd |-> csnlogpage_precedes_result(pg_page2, pg_page1),
            self |-> csnlogpage_precedes_result(pg_page1, pg_page1),
            overflowed |->
                \/ csnlogpage_precedes_overflows(pg_page1, pg_page2)
                \/ csnlogpage_precedes_overflows(pg_page1, pg_page1)]
    /\ UNCHANGED <<overflow_checks, unit, pg_page1, pg_page2, clog_vars, csn_vars,
                   ord_vars, slru_vars, mx_vars, race_vars, hist_vars,
                   cli_vars>>

CsnLogPageNext == CsnLogPagePrecedes

SpecCsnLogPage == CsnLogPageInit /\ [][CsnLogPageNext]_vars

---------------------------------------------------------------------------
(* Claims about the CSN-log page ordering *)

CsnLogPageCalled == unit = "csnlogpage" /\ pg_done

\* Physical pages that 32-bit identifiers address: 0 .. 2^28 - 1.
InCsnLogRange(page) == page[1] < 4096

\* (page / 64) * 1024 + 4 modulo 2^32, computed on the halves of page / 64;
\* for a page below 2^28 the value is below 2^32 and nothing is cut off.
RefCsnXid(page) ==
    LET q == u32_div(page, 64)
    IN  <<(q[1] * 1024 + q[2] \div 64) % W16, (q[2] % 64) * 1024 + 4>>

\* "true" or "false".
BoolResult(b) == IF b THEN "true" ELSE "false"

\* C20: csnlogpage_precedes(page1, page2) is false, in both argument orders,
\* whenever page1 mod 64 differs from page2 mod 64; for two pages of one
\* region what it returns equals precedes(x1, x2) with
\* x = (page / 64) * 1024 + 4, and so equals its result for the pages of
\* region 0 with the same page / 64; and it returns for every two CSN-log
\* pages that 32-bit identifiers address.
C20_CsnLogPageWithinRegion ==
    CsnLogPageCalled =>
        LET r1 == u32_rem(pg_page1, 64)
            r2 == u32_rem(pg_page2, 64)
        IN  /\ r1 # r2 => (pg_out.fwd = "false" /\ pg_out.bwd = "false")
            /\ (r1 = r2 /\ pg_out.fwd # "overflow") =>
                   /\ pg_out.fwd =
                          BoolResult(transaction_id_precedes(RefCsnXid(pg_page1),
                                                             RefCsnXid(pg_page2)))
                   /\ pg_out.bwd =
                          BoolResult(transaction_id_precedes(RefCsnXid(pg_page2),
                                                             RefCsnXid(pg_page1)))
                   /\ pg_out.fwd =
                          csnlogpage_precedes_result(
                              wrapping_sub(pg_page1, ToU32(r1)),
                              wrapping_sub(pg_page2, ToU32(r2)))
            /\ (InCsnLogRange(pg_page1) /\ InCsnLogRange(pg_page2)) =>
                   /\ ~pg_out.overflowed
                   /\ "overflow" \notin {pg_out.fwd, pg_out.bwd, pg_out.self}

\* Pages 63 and 127, the first two pages of the last region: 63 precedes 127
\* and not the other way round.
C20_Witness ==
    /\ CsnLogPageCalled
    /\ pg_page1 = ToU32(63) /\ pg_page2 = ToU32(127)
    /\ pg_out.fwd = "true" /\ pg_out.bwd = "false" /\ pg_out.self = "false"

\* Pages 1 and 64, of regions 1 and 0: ordered in neither direction although
\* identifiers of the first (4) precede identifiers of the second (1028).
CsnLogPageAcrossRegions ==
    /\ CsnLogPageCalled
    /\ pg_page1 = ToU32(1) /\ pg_page2 = ToU32(64)
    /\ transaction_id_precedes(csnlogpage_xid(pg_page1), csnlogpage_xid(pg_page2))
    /\ pg_out.fwd = "false" /\ pg_out.bwd = "false"

\* Past the pages that identifiers address, (page / 64) * 1024 exceeds
\* u32::MAX: a build with overflow checks panics.
CsnLogPageOverflowPastRange ==
    CsnLogPageCalled =>
        /\ pg_out.overflowed <=>
               \/ ~InCsnLogRange(pg_page1)
               \/ /\ u32_rem(pg_page1, 64) = u32_rem(pg_page2, 64)
                  /\ ~InCsnLogRange(pg_page2)
        /\ pg_out.self = (IF overflow_checks /\ ~InCsnLogRange(pg_page1)
                          THEN "overflow" ELSE "false")

---------------------------------------------------------------------------
(* zenith start and zenith stop (zenith/src/main.rs)                       *)
(*                                                                         *)
(* The handlers call the start and stop methods of the page server, the    *)
(* safekeepers and the compute nodes; each call returns Ok or Err, and the *)
(* handler's position moves from one call to the next.  Components are     *)
(* named by numbers: the page server is 0, safekeepers and compute nodes   *)
(* are numbered from 1.                                                    *)

Safekeepers == 1..MaxSafekeepers

ComputeNodes == 1..MaxNodes

\* The configurations: every list of distinct safekeepers, in any order.
SafekeeperConfs ==
    UNION {{c \in [1..n -> Safekeepers] : \A i, j \in 1..n : c[i] = c[j] => i = j} :
           n \in 0..MaxSafekeepers}

BoolArg(b) == IF b THEN "true" ELSE "false"

Call(op, kind, name, arg, ok) ==
    [op |-> op, kind |-> kind, name |-> name, arg |-> arg, ok |-> ok]

Line(msg, name) == [msg |-> msg, name |-> name]

\* What eprintln! has written after a call that returned ok or an error.
Reported(ok, line) == IF ok THEN cli_stderr ELSE Append(cli_stderr, line)

\* Mutant: a failed start is reported and the next start attempted.
start_all_after_best_effort(ok, next) == next

\* handle_start_all after a start call: exit(1) on Err, on to the next otherwise.
start_all_after(ok, next) == IF ok THEN next ELSE "exit"

\* Mutant: a failed stop ends the process as a failed start does.
stop_all_after_fail_fast(ok, next) == IF ok THEN next ELSE "exit"

\* handle_stop_all after a stop call: the error is printed and the handler
\* goes on.
stop_all_after(ok, next) == next

\* The position after the safekeeper loop has visited the safekeeper at
\* index sk - 1: the next safekeeper, or the Ok(()) that ends the handler.
SafekeeperLoop(sk) == IF sk <= Len(cli_safekeepers) THEN "safekeepers" ELSE "return"

\* What the process has come to at a position.
ResultAt(pc) ==
    CASE pc = "exit" -> "exit1"
      [] pc = "return" -> "Ok"
      [] pc = "error" -> "Err"
      [] OTHER -> "running"

CliInit ==
    /\ unit = "zenith"
    /\ overflow_checks = FALSE
    /\ cli_cmd \in {"start", "stop"}
    /\ cli_immediate \in (IF cli_cmd = "stop" THEN BOOLEAN ELSE {FALSE})
    /\ cli_safekeepers \in SafekeeperConfs
    /\ cli_nodes \in SUBSET ComputeNodes
    /\ cli_pc = (IF cli_cmd = "start" THEN "pageserver" ELSE "load")
    /\ cli_todo = {}
    /\ cli_sk = 0
    /\ cli_log = <<>>
    /\ cli_stderr = <<>>
    /\ cli_result = "running"
    /\ ClogIdle /\ CsnIdle /\ OrdIdle /\ SlruIdle /\ MxIdle /\ PgIdle /\ RaceIdle
    /\ HistIdle

\* handle_start_all: pageserver.start(..).
StartPageserver(ok) ==
    /\ unit = "zenith" /\ cli_cmd = "start" /\ cli_pc = "pageserver"
    /\ cli_log' = Append(cli_log, Call("start", "pageserver", 0, "overrides", ok))
    /\ cli_stderr' = Reported(ok, Line("pageserver start failed", 0))
    /\ cli_sk' = 1
    /\ cli_pc' = start_all_after(ok, SafekeeperLoop(1))
    /\ cli_result' = ResultAt(cli_pc')
    /\ UNCHANGED <<overflow_checks, unit, cli_cmd, cli_immediate, cli_safekeepers,
                   cli_nodes, cli_todo, clog_vars, csn_vars, ord_vars, slru_vars,
                   mx_vars, pg_vars, race_vars, hist_vars>>

\* handle_start_all: one round of the loop over env.safekeepers.
StartSafekeeper(ok) ==
    /\ unit = "zenith" /\ cli_cmd = "start" /\ cli_pc = "safekeepers"
    /\ LET name == cli_safekeepers[cli_sk]
       IN  /\ cli_log' = Append(cli_log, Call("start", "safekeeper", name, "", ok))
           /\ cli_stderr' = Reported(ok, Line("safekeeper start failed", name))
    /\ cli_sk' = cli_sk + 1
    /\ cli_pc' = start_all_after(ok, SafekeeperLoop(cli_sk + 1))
    /\ cli_result' = ResultAt(cli_pc')
    /\ UNCHANGED <<overflow_checks, unit, cli_cmd, cli_immediate, cli_safekeepers,
                   cli_nodes, cli_todo, clog_vars, csn_vars, ord_vars, slru_vars,
                   mx_vars, pg_vars, race_vars, hist_vars>>

\* handle_stop_all: ComputeControlPlane::load(env.clone())?.
LoadCplane(ok) ==
    /\ unit = "zenith" /\ cli_cmd = "stop" /\ cli_pc = "load"
    /\ cli_todo' = (IF ok THEN cli_nodes ELSE {})
    /\ cli_pc' = (IF ~ok THEN "error"
                  ELSE IF cli_nodes = {} THEN "pageserver" ELSE "compute")
    /\ cli_result' = ResultAt(cli_pc')
    /\ UNCHANGED <<overflow_checks, unit, cli_cmd, cli_immediate, cli_safekeepers,
                   cli_nodes, cli_sk, cli_log, cli_stderr, clog_vars, csn_vars,
                   ord_vars, slru_vars, mx_vars, pg_vars, race_vars, hist_vars>>

\* handle_stop_all: one round of the loop over cplane.nodes, in the order
\* the map yields them.
StopCompute(node, ok) ==
    /\ unit = "zenith" /\ cli_cmd = "stop" /\ cli_pc = "compute"
    /\ node \in cli_todo
    /\ cli_log' = Append(cli_log, Call("stop", "postgres", node, BoolArg(FALSE), ok))
    /\ cli_stderr' = Reported(ok, Line("postgres stop failed", 0))
    /\ cli_todo' = cli_todo \ {node}
    /\ cli_pc' = stop_all_after(ok, IF cli_todo' = {} THEN "pageserver"
                                    ELSE "compute")
    /\ cli_result' = ResultAt(cli_pc')
    /\ UNCHANGED <<overflow_checks, unit, cli_cmd, cli_immediate, cli_safekeepers,
                   cli_nodes, cli_sk, clog_vars, csn_vars, ord_vars, slru_vars,
                   mx_vars, pg_vars, race_vars, hist_vars>>

\* handle_stop_all: pageserver.stop(immediate).
StopPageserver(ok) ==
    /\ unit = "zenith" /\ cli_cmd = "stop" /\ cli_pc = "pageserver"
    /\ cli_log' = Append(cli_log, Call("stop", "pageserver", 0,
                                       BoolArg(cli_immediate), ok))
    /\ cli_stderr' = Reported(ok, Line("pageserver stop failed", 0))
    /\ cli_sk' = 1
    /\ cli_pc' = stop_all_after(ok, SafekeeperLoop(1))
    /\ cli_result' = ResultAt(cli_pc')
    /\ UNCHANGED <<overflow_checks, unit, cli_cmd, cli_immediate, cli_safekeepers,
                   cli_nodes, cli_todo, clog_vars, csn_vars, ord_vars, slru_vars,
                   mx_vars, pg_vars, race_vars, hist_vars>>

\* handle_stop_all: one round of the loop over env.safekeepers.
StopSafekeeper(ok) ==
    /\ unit = "zenith" /\ cli_cmd = "stop" /\ cli_pc = "safekeepers"
    /\ LET name == cli_safekeepers[cli_sk]
       IN  /\ cli_log' = Append(cli_log, Call("stop", "safekeeper", name,
                                              BoolArg(cli_immediate), ok))
           /\ cli_stderr' = Reported(ok, Line("safekeeper stop failed", name))
    /\ cli_sk' = cli_sk + 1
    /\ cli_pc' = stop_all_after(ok, SafekeeperLoop(cli_sk + 1))
    /\ cli_result' = ResultAt(cli_pc')
    /\ UNCHANGED <<overflow_checks, unit, cli_cmd, cli_immediate, cli_safekeepers,
                   cli_nodes, cli_todo, clog_vars, csn_vars, ord_vars, slru_vars,
                   mx_vars, pg_vars, race_vars, hist_vars>>

CliNext ==
    \/ \E ok \in BOOLEAN : StartPageserver(ok)
    \/ \E ok \in BOOLEAN : StartSafekeeper(ok)
    \/ \E ok \in BOOLEAN : LoadCplane(ok)
    \/ \E node \in ComputeNodes, ok \in BOOLEAN : StopCompute(node, ok)
    \/ \E ok \in BOOLEAN : StopPageserver(ok)
    \/ \E ok \in BOOLEAN : StopSafekeeper(ok)

SpecCli == CliInit /\ [][CliNext]_vars

---------------------------------------------------------------------------
(* Claims about zenith stop *)

\* The control plane has been loaded by a zenith stop.
StopAllLoaded == unit = "zenith" /\ cli_cmd = "stop" /\ cli_pc \notin {"load", "error"}

\* The calls zenith stop has to make once the control plane is loaded.
StopAllCalls == Cardinality(cli_nodes) + 1 + Len(cli_safekeepers)

\* The line eprintln! writes for a failed call.
LineOf(call) ==
    Line(IF call.kind = "postgres" THEN "postgres stop failed"
         ELSE IF call.kind = "pageserver" THEN "pageserver " \o call.op \o " failed"
         ELSE "safekeeper " \o call.op \o " failed",
         IF call.kind = "safekeeper" THEN call.name ELSE 0)

Failed(call) == ~call.ok

\* The lines of the failed calls of a log, in order.
FailureLines(log) ==
    LET failed == SelectSeq(log, Failed)
    IN  [i \in 1..Len(failed) |-> LineOf(failed[i])]

\* C21: once the compute control plane is loaded, the calls handle_stop_all
\* makes are, in this order: a stop of every compute node, each once and
\* never with destroy set, whatever the stop mode; the stop of the page
\* server; the stop of every configured safekeeper in configuration order.
\* Each failed stop is reported, no failure ends the handler before the last
\* of these calls, and after the last call the handler returns Ok.
C21_StopAllOrderedBestEffort ==
    StopAllLoaded =>
        LET n == Cardinality(cli_nodes)
            k == Len(cli_log)
        IN  /\ k <= StopAllCalls
            /\ \A i \in 1..k : cli_log[i].op = "stop"
            /\ \A i \in 1..k : i <= n =>
                   /\ cli_log[i].kind = "postgres"
                   /\ cli_log[i].name \in cli_nodes
                   /\ cli_log[i].arg = "false"
                   /\ \A j \in 1..k : (j <= n /\ cli_log[j].name = cli_log[i].name)
                                          => j = i
            /\ k > n =>
                   /\ cli_log[n + 1].kind = "pageserver"
                   /\ cli_log[n + 1].arg = BoolArg(cli_immediate)
            /\ \A i \in 1..k : i > n + 1 =>
                   /\ cli_log[i].kind = "safekeeper"
                   /\ cli_log[i].name = cli_safekeepers[i - n - 1]
                   /\ cli_log[i].arg = BoolArg(cli_immediate)
            /\ cli_stderr = FailureLines(cli_log)
            /\ cli_result = (IF k = StopAllCalls THEN "Ok" ELSE "running")

\* A zenith stop --stop-mode immediate has returned Ok after the stop of a
\* compute node, of the page server and of the first of two safekeepers
\* failed; every component was still attempted.
C21_Witness ==
    /\ StopAllLoaded
    /\ cli_result = "Ok"
    /\ cli_immediate
    /\ cli_nodes = {1, 2}
    /\ cli_safekeepers = <<2, 1>>
    /\ Len(cli_log) = 5
    /\ ~cli_log[1].ok /\ ~cli_log[3].ok /\ ~cli_log[4].ok /\ cli_log[5].ok
    /\ cli_log[5].name = 1
    /\ Len(cli_stderr) = 3

\* A zenith stop whose control plane does not load makes no stop call and
\* returns the error.
StopAllLoadFailed ==
    (unit = "zenith" /\ cli_cmd = "stop" /\ cli_pc = "error") =>
        (cli_log = <<>> /\ cli_result = "Err")

---------------------------------------------------------------------------
(* Claims about zenith start *)

StartAll == unit = "zenith" /\ cli_cmd = "start"

\* C22: the calls handle_start_all makes are the start of the page server and
\* then the starts of the configured safekeepers in configuration order, each
\* made only after every earlier start succeeded; a failed start is reported
\* and ends the process with exit status 1 before any later start; no compute
\* node is started; and the handler returns Ok only after every start
\* succeeded.
C22_StartAllOrderedFailFast ==
    StartAll =>
        LET k == Len(cli_log)
        IN  /\ k <= 1 + Len(cli_safekeepers)
            /\ \A i \in 1..k :
                   /\ cli_log[i].op = "start"
                   /\ cli_log[i].kind # "postgres"
                   /\ cli_log[i].kind = (IF i = 1 THEN "pageserver" ELSE "safekeeper")
                   /\ i > 1 => cli_log[i].name = cli_safekeepers[i - 1]
                   /\ i < k => cli_log[i].ok
            /\ cli_result = (IF k > 0 /\ ~cli_log[k].ok THEN "exit1"
                             ELSE IF k = 1 + Len(cli_safekeepers) THEN "Ok"
                             ELSE "running")
            /\ cli_stderr = FailureLines(cli_log)
            /\ Len(cli_stderr) <= 1

\* A zenith start with compute nodes present and safekeepers 2, 1 configured
\* has exited with status 1: the page server started, the start of
\* safekeeper 2 failed, and safekeeper 1 was never attempted.
C22_Witness ==
    /\ StartAll
    /\ cli_nodes = {1, 2}
    /\ cli_safekeepers = <<2, 1>>
    /\ cli_result = "exit1"
    /\ Len(cli_log) = 2
    /\ cli_log[1].ok /\ ~cli_log[2].ok
    /\ cli_log[2].name = 2
    /\ cli_stderr = <<Line("safekeeper start failed", 2)>>

\* No step follows the end of a handler: exit(1), Ok(()) and a returned error
\* are final.
CliFinal ==
    [][(cli_result \in {"exit1", "Ok", "Err"}) => (cli_vars' = cli_vars)]_vars

---------------------------------------------------------------------------
(* The library as a whole: a run exercises one of its components. *)

Init ==
    \/ ClogInit \/ CsnInit \/ OrdInit \/ SlruInit \/ MxInit
    \/ HistInit \/ RaceInit \/ ClogPageInit \/ CsnLogPageInit \/ CliInit

Next ==
    \/ ClogNext \/ CsnNext \/ OrdNext \/ SlruNext \/ MxNext
    \/ HistNext \/ RaceNext \/ ClogPageNext \/ CsnLogPageNext \/ CliNext

Spec == Init /\ [][Next]_vars

===========================================================================
